---- MODULE Spec2Model ----
(***************************************************************************)
(* Model of src/app.py: the PM2.5 forecast service.                        *)
(*                                                                         *)
(*   - module startup (lines 14-52): path checks, load, time-column        *)
(*     detection, hourly normalization, gap-fill, target check;            *)
(*   - build_feature_view (time features, lags, rolling statistics,        *)
(*     dropna);                                                            *)
(*   - pm25_to_aqi and the breakpoint table;                               *)
(*   - the request handlers api_last, api_predict and health.              *)
(*                                                                         *)
(* Conventions.  A cell is a sequence: <<>> is a missing value (NaN, NaT), *)
(* <<v>> holds v.  Concentrations are integers in units of 1/10000 ug/m3,  *)
(* so 12.1 ug/m3 is 121000.  Timestamps are minutes since the epoch        *)
(* Monday 2024-01-01 00:00.  Divisions that the program carries out in     *)
(* floating point (means, interpolation) are truncated to the unit.        *)
(***************************************************************************)
EXTENDS Integers, Sequences, FiniteSets, TLC

VARIABLES
    fs,       \* the paths that exist on disk, among DATA_PATH and MODEL_PATH
    pc,       \* position of the process: startup stage, "serving", "failed"
    err,      \* the exception that ended startup, or "none"
    df,       \* the table read by pd.read_csv (line 18)
    dfh,      \* the Hourly Series (module global, lines 36-50)
    model,    \* the loaded model artifact (module global, line 17)
    handled,  \* number of requests the handlers have been entered for
    resp,     \* outcome of the last request
    win,      \* the last answer of /api/last, and how many it has given
    ug,       \* AQI mapper: first concentration
    ug2,      \* AQI mapper: second concentration (ug2 >= ug)
    out,      \* AQI mapper: pm25_to_aqi(ug)
    out2      \* AQI mapper: pm25_to_aqi(ug2)

vars == <<fs, pc, err, df, dfh, model, handled, resp, win, ug, ug2, out, out2>>

----------------------------------------------------------------------------
(* Bounds of the model *)

\* grid points of the AQI mapper's inputs, at 0.01 ug/m3 spacing
MaxGrid == 50100
\* the second concentration of a pair lies at most this many grid points up
MaxGap == 4
\* raw rows of a table of the normalizer's input family
MaxRaw == 2
\* half-hour ticks a raw timestamp of that family is drawn from
MaxTick == 4
\* hours between the two observations of the service's input family: up to
\* ShortSpan, or from one less than the largest lag up to MaxSpan
ShortSpan == 2
MaxSpan == 26
\* requests handled in one run
MaxReq == 3
\* window sizes the recent-window operation is called with, besides the route's
MaxWin == 2

----------------------------------------------------------------------------
(* Cells and units *)

NaN == <<>>
Val(v) == <<v>>
IsNa(c) == c = <<>>
Get(c) == c[1]

\* the sequence s, built element by element
MkSeq(s) == <<>> \o s

\* F(v), with v computed once
Let(v, F(_)) == CHOOSE r \in {F(x) : x \in {v}} : TRUE

Min2(x, y) == IF x <= y THEN x ELSE y
Max2(x, y) == IF x >= y THEN x ELSE y

----------------------------------------------------------------------------
(* AQI mapper: _PM25_BREAKS and pm25_to_aqi (lines 81-97) *)

\* (Cl, Ch, Il, Ih, txt, cls); Cl and Ch in model units
_PM25_BREAKS == <<
    <<0,       120000,  0,   50,  "good",           "aqi-good">>,
    <<121000,  354000,  51,  100, "moderate",       "aqi-moderate">>,
    <<355000,  554000,  101, 150, "usg",            "aqi-usg">>,
    <<555000,  1504000, 151, 200, "unhealthy",      "aqi-unhealthy">>,
    <<1505000, 2504000, 201, 300, "very-unhealthy", "aqi-very">>,
    <<2505000, 5004000, 301, 500, "hazardous",      "aqi-hazardous">> >>

\* Inputs on the 0.01 grid whose interpolated score is an exact tie k + 1/2 with
\* k even, but for which the double-precision expression of line 95 lands just
\* above the tie, so that round() goes up (all in the first bucket).
FloatTieUp == {10800, 15600, 34800, 44400, 54000, 63600, 73200, 92400, 97200,
               111600, 116400}

\* round((Ih - Il) / (Ch - Cl) * (ug - Cl) + Il): Python's round, half to even
Interpolate(b, x) ==
    LET num == (b[4] - b[3]) * (x - b[1])
        den == b[2] - b[1]
        q   == b[3] + (num \div den)
        r   == num % den
    IN  IF 2 * r < den THEN q
        ELSE IF 2 * r > den THEN q + 1
        ELSE IF q % 2 = 0 /\ x \notin FloatTieUp THEN q ELSE q + 1

\* index of the first bucket with Cl <= x <= Ch, 0 when the loop falls through
Bucket(x) ==
    LET hit == {i \in 1..Len(_PM25_BREAKS) :
                   _PM25_BREAKS[i][1] <= x /\ x <= _PM25_BREAKS[i][2]}
    IN  IF hit = {} THEN 0 ELSE CHOOSE i \in hit : \A j \in hit : i <= j

pm25_to_aqi(c) ==
    \* bucket is the index of the table row whose branch returned, 0 for the
    \* missing-input return of line 92 and the fall-through return of line 97
    IF IsNa(c) THEN [aqi |-> NaN, txt |-> "unknown", cls |-> "aqi-unknown", bucket |-> 0]
    ELSE LET x == Get(c)
             i == Bucket(x)
         IN  IF i = 0
             THEN [aqi |-> Val(500), txt |-> "hazardous", cls |-> "aqi-hazardous",
                   bucket |-> 0]
             ELSE [aqi |-> Val(Interpolate(_PM25_BREAKS[i], x)),
                   txt |-> _PM25_BREAKS[i][5], cls |-> _PM25_BREAKS[i][6],
                   bucket |-> i]

----------------------------------------------------------------------------
(* Tables *)

\* configuration read from the environment (lines 9-11), at its defaults
DATA_PATH == "data/riyadh_air_quality.csv"
MODEL_PATH == "models/riyadh_pm25_xgb.joblib"
TARGET == "PM2.5"

\* str.lower() on the column names the input families use
Lower(c) ==
    CASE c = "Timestamp" -> "timestamp"
      [] c = "DATE"      -> "date"
      [] c = "PM2.5"     -> "pm2.5"
      [] OTHER           -> c

NaT == <<>>
PmCells == {NaN, Val(80000), Val(400000)}
AuxCells == {NaN, Val(25)}
CatCells == {NaN, Val("a")}

\* the field of a row that holds the target column's cell
TargetField == "pm"

MkRow(t, p, a, c) == [ts |-> t, pm |-> p, aux |-> a, cat |-> c]
NaRow(t) == MkRow(t, NaN, NaN, NaN)

\* a table: the column names, in file order (time, target, a second numeric
\* measurement, a categorical one), and the rows
MkTable(tname, pname, rows) ==
    [cols |-> <<tname, pname, "temp", "station">>, rows |-> rows]
NoTable == [cols |-> <<>>, rows |-> <<>>]

SeqsUpTo(S, n) == UNION {[1..k -> S] : k \in 0..n}

\* Input family of the normalizer: up to MaxRaw rows in any order, timestamps on
\* half-hour ticks or unparseable, any cell missing.
RichRows ==
    {MkRow(t, p, a, c) : t \in {NaT} \cup {Val(30 * k) : k \in 0..MaxTick},
                         p \in PmCells, a \in AuxCells, c \in CatCells}
RichInputs == {MkTable("Timestamp", TARGET, r) : r \in SeqsUpTo(RichRows, MaxRaw)}

\* Input family of the service: two observations SpanHours apart (a few hours, the
\* ten-row series, or about the largest lag), under column names that pass the
\* startup checks; and an empty and a sample table under column names that pass
\* or fail them.
SpanHours == (0..ShortSpan) \cup {9} \cup (23..MaxSpan)
SpanPairs ==
    {<< MkRow(Val(0), p1, a1, c1), MkRow(Val(60 * h), p2, a2, c2) >> :
        h \in SpanHours, p1 \in {NaN, Val(80000)}, p2 \in {NaN, Val(400000)},
        a1 \in AuxCells, a2 \in AuxCells, c1 \in CatCells, c2 \in CatCells}
\* ... optionally followed by an hour that was logged without any measurement
SpanRows ==
    SpanPairs \cup {Append(r, NaRow(Val(Get(r[2].ts) + 60))) : r \in SpanPairs}
SampleRows == << MkRow(Val(0), Val(80000), Val(25), Val("a")),
                 MkRow(Val(60 * MaxSpan), Val(400000), Val(25), NaN) >>
ServiceInputs ==
    {MkTable("Timestamp", TARGET, r) : r \in SpanRows}
    \cup {MkTable(tn, pn, r) : tn \in {"Timestamp", "DATE", "when"},
                               pn \in {TARGET, "pm25"}, r \in {<<>>, SampleRows}}

----------------------------------------------------------------------------
(* Module startup: hourly normalization (lines 21-39) *)

time_col_candidates(d) ==
    SelectSeq(d.cols, LAMBDA c : Lower(c) \in {"timestamp", "datetime", "date", "time"})

\* dropna(subset=[TIME_COL])
DropNaT(rows) == SelectSeq(rows, LAMBDA r : ~IsNa(r.ts))

\* sort_values(TIME_COL): insertion keeps rows of equal timestamp in file order
RECURSIVE SortRows(_)
SortRows(rows) ==
    IF rows = <<>> THEN <<>>
    ELSE LET n    == Len(rows)
             last == rows[n]
             head == SortRows(SubSeq(rows, 1, n - 1))
             le   == SelectSeq(head, LAMBDA r : Get(r.ts) <= Get(last.ts))
             gt   == SelectSeq(head, LAMBDA r : Get(r.ts) > Get(last.ts))
         IN  le \o <<last>> \o gt

\* dt.floor("h")
FloorHour(t) == 60 * (t \div 60)
FloorRows(rows) ==
    MkSeq([i \in 1..Len(rows) |-> [rows[i] EXCEPT !.ts = Val(FloorHour(Get(rows[i].ts)))]])

\* select_dtypes(include=[np.number]) on the table as read: a column is numeric
\* when the table has rows and no cell of the column is a string; the first
\* three columns of the families hold numbers or nothing.
CatIsNumeric(d) == d.rows # <<>> /\ \A i \in 1..Len(d.rows) : IsNa(d.rows[i].cat)

RECURSIVE SumSeq(_)
SumSeq(s) == IF s = <<>> THEN 0 ELSE s[1] + SumSeq(Tail(s))

\* "mean" over the non-missing values of a group
MeanOf(cells) ==
    LET vals == SelectSeq(cells, LAMBDA c : ~IsNa(c))
    IN  IF vals = <<>> THEN NaN
        ELSE Val(SumSeq([i \in 1..Len(vals) |-> Get(vals[i])]) \div Len(vals))

\* "last": the last non-missing value of a group
LastOf(cells) ==
    LET vals == SelectSeq(cells, LAMBDA c : ~IsNa(c))
    IN  IF vals = <<>> THEN NaN ELSE vals[Len(vals)]

\* groupby(TIME_COL).agg(agg).sort_index(): one row per observed hour
GroupHours(rows) == {Get(rows[i].ts) : i \in 1..Len(rows)}
AggRow(rows, h, catNumeric) ==
    LET g == SelectSeq(rows, LAMBDA r : Get(r.ts) = h)
        col(f) == MkSeq([i \in 1..Len(g) |-> g[i][f]])
    IN  MkRow(Val(h), MeanOf(col("pm")), MeanOf(col("aux")),
              IF catNumeric THEN NaN ELSE LastOf(col("cat")))

RECURSIVE SetToSortedSeq(_)
SetToSortedSeq(S) ==
    IF S = {} THEN <<>>
    ELSE LET m == CHOOSE x \in S : \A y \in S : x <= y
         IN  <<m>> \o SetToSortedSeq(S \ {m})

GroupAgg(rows, catNumeric) ==
    LET hs == SetToSortedSeq(GroupHours(rows))
    IN  MkSeq([i \in 1..Len(hs) |-> AggRow(rows, hs[i], catNumeric)])

\* pd.date_range(min, max, freq="h") of a non-empty index
date_range(lo, hi) == MkSeq([i \in 1..((hi - lo) \div 60 + 1) |-> lo + 60 * (i - 1)])

\* reindex(full_idx): the grouped row of an observed hour, an empty row otherwise
Reindex(g, idx) ==
    MkSeq([i \in 1..Len(idx) |->
              LET hit == SelectSeq(g, LAMBDA r : Get(r.ts) = idx[i])
              IN  IF hit = <<>> THEN NaRow(Val(idx[i])) ELSE hit[1]])

----------------------------------------------------------------------------
(* Module startup: gap-fill (lines 42-50) *)

Column(rows, f) == MkSeq([i \in 1..Len(rows) |-> rows[i][f]])
Valid(col) == {i \in 1..Len(col) : ~IsNa(col[i])}

\* Series.interpolate(method="time", limit_direction=dir): linear in the index
\* between the nearest valid neighbours; a cell after the last valid one takes its
\* value unless dir = "backward", a cell before the first valid one takes its
\* value unless dir = "forward"; a column with no valid cell is left alone.
InterpolateTime(col, idx, dir) ==
    LET valid == Valid(col)
        prev(i) == {p \in valid : p < i}
        next(i) == {n \in valid : n > i}
        maxOf(S) == CHOOSE x \in S : \A y \in S : y <= x
        minOf(S) == CHOOSE x \in S : \A y \in S : x <= y
        fill(i) ==
            IF prev(i) # {} /\ next(i) # {}
            THEN LET p == maxOf(prev(i))
                     n == minOf(next(i))
                 IN  Val(Get(col[p]) + ((Get(col[n]) - Get(col[p])) * (idx[i] - idx[p]))
                                            \div (idx[n] - idx[p]))
            ELSE IF prev(i) # {}
            THEN IF dir = "backward" THEN NaN ELSE col[maxOf(prev(i))]
            ELSE IF next(i) # {}
            THEN IF dir = "forward" THEN NaN ELSE col[minOf(next(i))]
            ELSE NaN
    IN  MkSeq([i \in 1..Len(col) |-> IF IsNa(col[i]) THEN fill(i) ELSE col[i]])

\* fillna(method="ffill")
Ffill(col) ==
    LET valid == Valid(col)
    IN  MkSeq([i \in 1..Len(col) |->
                  LET before == {p \in valid : p <= i}
                  IN  IF before = {} THEN NaN
                      ELSE col[CHOOSE p \in before : \A q \in before : q <= p]])

\* fillna(method="bfill")
Bfill(col) ==
    LET valid == Valid(col)
    IN  MkSeq([i \in 1..Len(col) |->
                  LET after == {n \in valid : n >= i}
                  IN  IF after = {} THEN NaN
                      ELSE col[CHOOSE n \in after : \A q \in after : n <= q]])

\* a gap-fill that interpolates forward only and stops after the forward fill
NumFillForwardOnly(col, idx) == Ffill(InterpolateTime(col, idx, "forward"))

\* a gap-fill that interpolates backward only and skips the forward fill
NumFillBackwardOnly(col, idx) == Bfill(InterpolateTime(col, idx, "backward"))

\* lines 43-46, one numeric column
NumFill(col, idx) == Bfill(Ffill(InterpolateTime(col, idx, "both")))

\* lines 48-50, one non-numeric column: its most frequent value, "unknown" when
\* it has none (among equally frequent values mode() puts the least first)
ModeFill(col) ==
    LET valid == Valid(col)
        count(v) == Cardinality({i \in valid : col[i] = v})
        vals == {col[i] : i \in valid}
        mode_val == IF vals = {} THEN Val("unknown")
                    ELSE CHOOSE v \in vals : \A w \in vals : count(w) <= count(v)
    IN  MkSeq([i \in 1..Len(col) |-> IF IsNa(col[i]) THEN mode_val ELSE col[i]])

GapFill(rows, idx, catNumeric) ==
    LET pm  == NumFill(Column(rows, "pm"), idx)
        aux == NumFill(Column(rows, "aux"), idx)
        cat == IF catNumeric THEN NumFill(Column(rows, "cat"), idx)
               ELSE ModeFill(Column(rows, "cat"))
    IN  MkSeq([i \in 1..Len(rows) |-> MkRow(rows[i].ts, pm[i], aux[i], cat[i])])

\* the index left by groupby without the reindex to the full hourly range
ObservedIndex(g) == MkSeq([i \in 1..Len(g) |-> Get(g[i].ts)])

\* line 37
FullIndex(g) == date_range(Get(g[1].ts), Get(g[Len(g)].ts))

\* lines 26-50; the grouped table is empty when no timestamp parses, and
\* pd.date_range then raises ValueError
Grouped(d) == GroupAgg(FloorRows(SortRows(DropNaT(d.rows))), CatIsNumeric(d))

NoFrame == [columns |-> <<>>, rows |-> <<>>]

Normalize(d) ==
    LET g   == Grouped(d)
        idx == FullIndex(g)
    IN  [columns |-> Tail(d.cols),
         rows    |-> GapFill(Reindex(g, idx), idx, CatIsNumeric(d))]

----------------------------------------------------------------------------
(* Module startup as steps (lines 14-52) *)

NoResp == [kind |-> "none"]
NoWin == [n |-> 0, calls |-> 0]

Fail(e) ==
    /\ pc' = "failed"
    /\ err' = e

\* line 14
CheckDataPath ==
    /\ pc = "start"
    /\ IF DATA_PATH \in fs
       THEN pc' = "data_ok" /\ UNCHANGED err
       ELSE Fail("AssertionError: DATA_PATH not found")
    /\ UNCHANGED <<fs, df, dfh, model, handled, resp, win, ug, ug2, out, out2>>

\* line 15
CheckModelPath ==
    /\ pc = "data_ok"
    /\ IF MODEL_PATH \in fs
       THEN pc' = "model_ok" /\ UNCHANGED err
       ELSE Fail("AssertionError: MODEL_PATH not found")
    /\ UNCHANGED <<fs, df, dfh, model, handled, resp, win, ug, ug2, out, out2>>

\* lines 17-18: the file's content is an input of the step
Load ==
    /\ pc = "model_ok"
    /\ \E d \in ServiceInputs : df' = d
    /\ model' = "xgb"
    /\ pc' = "loaded"
    /\ UNCHANGED <<fs, err, dfh, handled, resp, win, ug, ug2, out, out2>>

\* lines 21-23
DetectTimeCol ==
    /\ pc = "loaded"
    /\ IF time_col_candidates(df) # <<>>
       THEN pc' = "time_ok" /\ UNCHANGED err
       ELSE Fail("AssertionError: No datetime column found")
    /\ UNCHANGED <<fs, df, dfh, model, handled, resp, win, ug, ug2, out, out2>>

\* lines 26-50
NormalizeStep ==
    /\ pc = "time_ok"
    /\ IF Grouped(df) = <<>>
       THEN Fail("ValueError") /\ UNCHANGED dfh
       ELSE pc' = "normalized" /\ dfh' = Normalize(df) /\ UNCHANGED err
    /\ UNCHANGED <<fs, df, model, handled, resp, win, ug, ug2, out, out2>>

\* a startup that goes on to serve whatever the columns are
SkipTargetCheck ==
    /\ pc = "normalized"
    /\ pc' = "serving"
    /\ UNCHANGED <<fs, err, df, dfh, model, handled, resp, win, ug, ug2, out, out2>>

\* line 52; the module then falls through to app.run
CheckTarget ==
    /\ pc = "normalized"
    /\ IF \E i \in 1..Len(dfh.columns) : dfh.columns[i] = TARGET
       THEN pc' = "serving" /\ UNCHANGED err
       ELSE Fail("AssertionError: Target not found")
    /\ UNCHANGED <<fs, df, dfh, model, handled, resp, win, ug, ug2, out, out2>>

----------------------------------------------------------------------------
(* Feature builder (lines 55-78) *)

\* the lag offsets without the day-long one
lagsShort == <<1, 2, 3, 6, 12>>

\* default arguments of add_lags_rolls (line 64)
lags == <<1, 2, 3, 6, 12, 24>>
rolls == <<3, 6, 12, 24>>

DaysInMonth == <<31, 29, 31, 30, 31, 30, 31, 31, 30, 31, 30, 31>>

RECURSIVE MonthFrom(_, _)
MonthFrom(m, day) ==
    IF m = 12 \/ day < DaysInMonth[m] THEN m ELSE MonthFrom(m + 1, day - DaysInMonth[m])

\* lines 57-60, for a timestamp of the epoch's year
add_time_features(t) ==
    LET dow == (t \div 1440) % 7
    IN  [hour |-> (t \div 60) % 24,
         dayofweek |-> dow,
         month |-> MonthFrom(1, t \div 1440),
         is_weekend |-> IF dow >= 5 THEN 1 ELSE 0]

\* f[target].shift(L), row i
Shift(col, L, i) == IF i - L >= 1 THEN col[i - L] ELSE NaN

\* the non-missing cells of the w rows that end at row i
WindowObs(col, w, i) ==
    {j \in Max2(1, i - w + 1)..i : ~IsNa(col[j])}

\* sum of the non-missing cells of rows lo..hi
RECURSIVE SumRange(_, _, _)
SumRange(col, lo, hi) ==
    IF lo > hi THEN 0
    ELSE (IF IsNa(col[lo]) THEN 0 ELSE Get(col[lo])) + SumRange(col, lo + 1, hi)

min_periods(w) == Max2(1, w \div 2)

\* rolling(w, min_periods).mean(), row i
RollMean(col, w, i) ==
    LET obs == WindowObs(col, w, i)
    IN  IF Cardinality(obs) >= min_periods(w)
        THEN Val(SumRange(col, Max2(1, i - w + 1), i) \div Cardinality(obs))
        ELSE NaN

\* rolling(w, min_periods).std(), row i: the sample deviation needs two
\* observations.  Only the opaque model reads its magnitude, which is not
\* computed here: a defined deviation is the cell <<"std">>.
RollStd(col, w, i) ==
    LET n == Cardinality(WindowObs(col, w, i))
    IN  IF n >= min_periods(w) /\ n >= 2 THEN Val("std") ELSE NaN

\* lines 74-75: the frame with every derived column, before dropna
FeatureFrame(rows) ==
    Let(Column(rows, TargetField), LAMBDA col :
        MkSeq([i \in 1..Len(rows) |->
            [base     |-> rows[i],
             time     |-> add_time_features(Get(rows[i].ts)),
             lag      |-> MkSeq([k \in 1..Len(lags) |-> Shift(col, lags[k], i)]),
             rollmean |-> MkSeq([k \in 1..Len(rolls) |-> RollMean(col, rolls[k], i)]),
             rollstd  |-> MkSeq([k \in 1..Len(rolls) |-> RollStd(col, rolls[k], i)])]]))

NoneNa(cells) == \A k \in 1..Len(cells) : ~IsNa(cells[k])

\* a row dropna() keeps
Complete(f) ==
    /\ ~IsNa(f.base.pm) /\ ~IsNa(f.base.aux) /\ ~IsNa(f.base.cat)
    /\ NoneNa(f.lag) /\ NoneNa(f.rollmean) /\ NoneNa(f.rollstd)

\* lines 73-78: Xy
build_feature_view(rows) == SelectSeq(FeatureFrame(rows), Complete)

----------------------------------------------------------------------------
(* Prediction service (lines 99-139) *)

RECURSIVE DayFrom(_, _)
DayFrom(m, day) ==
    IF m = 12 \/ day < DaysInMonth[m] THEN day + 1 ELSE DayFrom(m + 1, day - DaysInMonth[m])

\* str() of a timestamp of the epoch's year: year, month, day, hour, minute
TsStr(t) ==
    <<2024, MonthFrom(1, t \div 1440), DayFrom(1, t \div 1440), (t \div 60) % 24, t % 60>>

\* round(v, 3): to the nearest thousandth, ties to even
Round3(v) ==
    LET q == v \div 10
        r == v % 10
    IN  IF r < 5 THEN 10 * q
        ELSE IF r > 5 THEN 10 * (q + 1)
        ELSE IF q % 2 = 0 THEN 10 * q ELSE 10 * (q + 1)

Round3Cell(c) == IF IsNa(c) THEN NaN ELSE Val(Round3(Get(c)))

\* the first n rows
HeadRows(rows, n) == SubSeq(rows, 1, Min2(n, Len(rows)))

\* DataFrame.tail(n), n >= 1: iloc[-n:]
TailRows(rows, n) == SubSeq(rows, Max2(0, Len(rows) - n) + 1, Len(rows))

\* lines 99-104, the scores
series_pm25_to_aqi(col) == MkSeq([i \in 1..Len(col) |-> pm25_to_aqi(col[i]).aqi])

\* lines 106-113
last_window_arrays(n) ==
    LET tail == TailRows(dfh.rows, n)
    IN  [timestamps |-> MkSeq([i \in 1..Len(tail) |-> TsStr(Get(tail[i].ts))]),
         pm25       |-> MkSeq([i \in 1..Len(tail) |-> Round3Cell(tail[i][TargetField])]),
         aqi        |-> series_pm25_to_aqi(Column(tail, TargetField))]

\* window size of the /api/last route (line 120)
RouteWindow == 72

\* values the opaque model may predict: 9.0004, 12.05 and 600 ug/m3
PredValues == {90004, 120500, 6000000}

\* dfh.index.max()
IndexMax(rows) ==
    LET ts == {Get(rows[i].ts) : i \in 1..Len(rows)}
    IN  CHOOSE t \in ts : \A u \in ts : u <= t

\* lines 118-120
ApiLast ==
    /\ pc = "serving"
    /\ handled < MaxReq
    /\ handled' = handled + 1
    /\ \E arrays \in {last_window_arrays(RouteWindow)} :
          /\ resp' = [kind |-> "last", outcome |-> "ok", n |-> RouteWindow,
                      body |-> arrays]
          /\ win' = [n |-> RouteWindow, calls |-> win.calls + 1, body |-> arrays]
    /\ UNCHANGED <<fs, pc, err, df, dfh, model, ug, ug2, out, out2>>

\* last_window_arrays called with another window size
GetRecentWindow ==
    /\ pc = "serving"
    /\ handled < MaxReq
    /\ handled' = handled + 1
    /\ \E n \in 1..MaxWin :
          resp' = [kind |-> "last", outcome |-> "ok", n |-> n,
                   body |-> last_window_arrays(n)]
    /\ UNCHANGED <<fs, pc, err, df, dfh, model, win, ug, ug2, out, out2>>

\* lines 124-135, given Xy.  X_latest = Xy[feats].iloc[[-1]] raises IndexError on
\* an empty Xy; the route has no handler for it, the framework answers 500 and
\* the process keeps serving.  index, row and lag1 are not part of the answer:
\* they record Xy's index and the row given to the model.
PredictResp(Xy, y) ==
    IF Xy = <<>>
    THEN [kind |-> "predict", outcome |-> "IndexError", index |-> <<>>]
    ELSE LET X_latest == Xy[Len(Xy)]
             a == pm25_to_aqi(Val(y))
         IN  [kind |-> "predict", outcome |-> "ok",
              index |-> MkSeq([i \in 1..Len(Xy) |-> Get(Xy[i].base.ts)]),
              row |-> Get(X_latest.base.ts),
              lag1 |-> X_latest.lag[1],
              body |-> [next_hour_prediction_ugm3 |-> Round3(y),
                        next_hour_prediction_aqi |-> a.aqi,
                        aqi_category_text |-> a.txt,
                        aqi_category_class |-> a.cls,
                        last_timestamp |-> TsStr(IndexMax(dfh.rows))]]

\* a handler that builds the feature view on dfh itself and drops rows in place
ApiPredictInPlace ==
    /\ pc = "serving"
    /\ handled < MaxReq
    /\ handled' = handled + 1
    /\ \E Xy \in {build_feature_view(dfh.rows)} :
          /\ \E y \in PredValues : resp' = PredictResp(Xy, y)
          /\ dfh' = [dfh EXCEPT !.rows = MkSeq([i \in 1..Len(Xy) |-> Xy[i].base])]
    /\ UNCHANGED <<fs, pc, err, df, model, win, ug, ug2, out, out2>>

\* lines 122-135
ApiPredict ==
    /\ pc = "serving"
    /\ handled < MaxReq
    /\ handled' = handled + 1
    /\ \E Xy \in {build_feature_view(dfh.rows)} :
          \E y \in PredValues : resp' = PredictResp(Xy, y)
    /\ UNCHANGED <<fs, pc, err, df, dfh, model, win, ug, ug2, out, out2>>

\* lines 137-139
Health ==
    /\ pc = "serving"
    /\ handled < MaxReq
    /\ handled' = handled + 1
    /\ resp' = [kind |-> "health", outcome |-> "ok", status |-> 200]
    /\ UNCHANGED <<fs, pc, err, df, dfh, model, win, ug, ug2, out, out2>>

----------------------------------------------------------------------------
(* Specifications *)

NoOut == [aqi |-> NaN, txt |-> "", cls |-> "", bucket |-> 0]

Idle ==
    /\ err = "none"
    /\ handled = 0
    /\ resp = NoResp
    /\ win = NoWin
    /\ out = NoOut
    /\ out2 = NoOut

\* The service: the process from its start, over the service's input family.
Init ==
    /\ pc = "start"
    /\ fs \in SUBSET {DATA_PATH, MODEL_PATH}
    /\ df = NoTable
    /\ dfh = NoFrame
    /\ model = "none"
    /\ ug = 0
    /\ ug2 = 0
    /\ Idle

Next ==
    \/ CheckDataPath
    \/ CheckModelPath
    \/ Load
    \/ DetectTimeCol
    \/ NormalizeStep
    \/ CheckTarget
    \/ ApiLast
    \/ GetRecentWindow
    \/ ApiPredict
    \/ Health

Spec == Init /\ [][Next]_vars

\* The normalizer: the startup from the table as read, over the normalizer's
\* input family.
InitNorm ==
    /\ pc = "time_ok"
    /\ fs = {DATA_PATH, MODEL_PATH}
    /\ df \in RichInputs
    /\ dfh = NoFrame
    /\ model = "xgb"
    /\ ug = 0
    /\ ug2 = 0
    /\ Idle

NextNorm == NormalizeStep

SpecNorm == InitNorm /\ [][NextNorm]_vars

\* The AQI mapper: pm25_to_aqi applied to a concentration of the 0.01 grid and
\* to one up to MaxGap grid points above it.
AqiMap ==
    /\ pc = "aqi_in"
    /\ pc' = "aqi_out"
    /\ \E d \in 0..MaxGap : ug2' = ug + d * 100
    /\ out' = pm25_to_aqi(Val(ug))
    /\ out2' = pm25_to_aqi(Val(ug2'))
    /\ UNCHANGED <<fs, err, df, dfh, model, handled, resp, win, ug>>

InitAqi ==
    /\ pc = "aqi_in"
    /\ fs = {}
    /\ df = NoTable
    /\ dfh = NoFrame
    /\ model = "none"
    /\ ug \in {100 * k : k \in 0..MaxGrid}
    /\ ug2 = ug
    /\ Idle

NextAqi == AqiMap

SpecAqi == InitAqi /\ [][NextAqi]_vars

----------------------------------------------------------------------------
(* Claims *)

ParsedRows(d) == DropNaT(d.rows)
ObservedHours(d) == {FloorHour(Get(ParsedRows(d)[i].ts)) : i \in 1..Len(ParsedRows(d))}
MinOf(S) == CHOOSE x \in S : \A y \in S : x <= y
MaxOf(S) == CHOOSE x \in S : \A y \in S : y <= x
HasObs(d, f) == \E i \in 1..Len(ParsedRows(d)) : ~IsNa(ParsedRows(d)[i][f])
NoMissingCells(rows) ==
    \A i \in 1..Len(rows) : ~IsNa(rows[i].pm) /\ ~IsNa(rows[i].aux) /\ ~IsNa(rows[i].cat)

\* C1: when the Hourly Series is empty or the feature builder keeps no row, a
\* recent-window or predict request ends in DataUnavailableError.
C1_DataUnavailable ==
    (/\ pc = "serving"
     /\ resp.kind \in {"last", "predict"}
     /\ (dfh.rows = <<>> \/ build_feature_view(dfh.rows) = <<>>))
        => resp.outcome = "DataUnavailableError"

\* C2: every concentration of [0, 500.4] falls in a bucket of the table and gets
\* that bucket's interpolated score and category; the fall-through return is
\* taken exactly above 500.4.
C2_Coverage ==
    pc = "aqi_out" =>
        /\ (out.bucket = 0 <=> ug > 5004000)
        /\ ug <= 5004000 =>
              /\ out.bucket \in 1..Len(_PM25_BREAKS)
              /\ _PM25_BREAKS[out.bucket][1] <= ug
              /\ ug <= _PM25_BREAKS[out.bucket][2]
              /\ out.aqi = Val(Interpolate(_PM25_BREAKS[out.bucket], ug))
              /\ out.cls = _PM25_BREAKS[out.bucket][6]

\* C3: for concentrations a < b of [0, 500.4] the score of a is at most the
\* score of b.
C3_Monotone ==
    (pc = "aqi_out" /\ ug < ug2 /\ ug2 <= 5004000) => Get(out.aqi) <= Get(out2.aqi)

\* C4: while the process serves, no request changes dfh or the model, and an
\* answer of /api/last equals the answer it gave before, whatever ran between.
C4_ReadOnly ==
    [][/\ pc = "serving" => (dfh' = dfh /\ model' = model)
       /\ (resp'.kind = "last" /\ resp'.n = RouteWindow /\ win.calls > 0)
             => resp'.body = win.body]_vars

C4_Witness ==
    /\ resp.kind = "last"
    /\ resp.n = RouteWindow
    /\ win.calls >= 2
    /\ handled = 3

\* C5: on a series of N rows without missing cells the feature view keeps exactly
\* the last N - 24 rows (none when N <= 24), and every rolling mean and deviation
\* is defined on each row whose lags are all defined.
C5_WarmUp ==
    (resp.kind = "predict" /\ NoMissingCells(dfh.rows)) =>
        LET N == Len(dfh.rows)
            F == FeatureFrame(dfh.rows)
        IN  /\ Len(resp.index) = Max2(0, N - 24)
            /\ \A i \in 1..Len(resp.index) : resp.index[i] = Get(dfh.rows[24 + i].ts)
            /\ \A i \in 1..N : NoneNa(F[i].lag) => (NoneNa(F[i].rollmean) /\ NoneNa(F[i].rollstd))

C5_Witness ==
    /\ resp.kind = "predict"
    /\ NoMissingCells(dfh.rows)
    /\ Len(dfh.rows) > 25
    /\ resp.outcome = "ok"
    /\ Len(resp.index) = Len(dfh.rows) - 24

HasTarget(frame) == \E i \in 1..Len(frame.columns) : frame.columns[i] = TARGET

\* C6: the process serves only after the four startup checks have passed; a
\* failed check ends startup in its assertion error, and a failed startup never
\* handles a request.
C6_FailFast ==
    /\ [](/\ pc = "serving" =>
                /\ DATA_PATH \in fs /\ MODEL_PATH \in fs
                /\ time_col_candidates(df) # <<>>
                /\ HasTarget(dfh)
          /\ handled > 0 => pc = "serving"
          /\ (DATA_PATH \notin fs /\ pc # "start")
                => (pc = "failed" /\ err = "AssertionError: DATA_PATH not found")
          /\ (DATA_PATH \in fs /\ MODEL_PATH \notin fs /\ pc \notin {"start", "data_ok"})
                => (pc = "failed" /\ err = "AssertionError: MODEL_PATH not found")
          /\ (df # NoTable /\ time_col_candidates(df) = <<>> /\ pc # "loaded")
                => (pc = "failed" /\ err = "AssertionError: No datetime column found")
          /\ (dfh # NoFrame /\ ~HasTarget(dfh) /\ pc # "normalized")
                => (pc = "failed" /\ err = "AssertionError: Target not found")
          /\ pc = "failed" => (handled = 0 /\ resp = NoResp))
    /\ [][pc = "failed" => pc' = "failed"]_vars

C6_Witness ==
    /\ pc = "failed"
    /\ err = "AssertionError: Target not found"
    /\ dfh.rows # <<>>

\* C7: when every numeric column has an observation, no numeric cell of the
\* Hourly Series is missing after the gap-fill.
C7_NoMissing ==
    (/\ pc = "normalized"
     /\ HasObs(df, "pm") /\ HasObs(df, "aux") /\ ~CatIsNumeric(df))
        => \A i \in 1..Len(dfh.rows) : ~IsNa(dfh.rows[i].pm) /\ ~IsNa(dfh.rows[i].aux)

\* the first hour has no target value, an hour in the middle was never observed
C7_Witness ==
    /\ pc = "normalized"
    /\ HasObs(df, "pm") /\ HasObs(df, "aux") /\ ~CatIsNumeric(df)
    /\ IsNa(Grouped(df)[1].pm)
    /\ Len(dfh.rows) > Len(Grouped(df))

\* C8: the keys of the Hourly Series run from the least to the greatest observed
\* hour in steps of one hour, each once.
C8_Contiguous ==
    pc = "normalized" =>
        LET lo == MinOf(ObservedHours(df))
            hi == MaxOf(ObservedHours(df))
        IN  /\ Len(dfh.rows) = (hi - lo) \div 60 + 1
            /\ \A i \in 1..Len(dfh.rows) : dfh.rows[i].ts = Val(lo + 60 * (i - 1))

\* rows out of order, an hour between them never observed
C8_Witness ==
    /\ pc = "normalized"
    /\ Len(ParsedRows(df)) = 2
    /\ Get(df.rows[1].ts) > Get(df.rows[2].ts)
    /\ Len(dfh.rows) > Cardinality(ObservedHours(df))

\* C9: a recent-window answer for n holds three arrays of length min(n, N) whose
\* i-th entries are the timestamp, the rounded target value and the AQI score of
\* row N - min(n, N) + i.
C9_Window ==
    resp.kind = "last" =>
        LET N == Len(dfh.rows)
            m == Min2(resp.n, N)
            b == resp.body
        IN  /\ Len(b.timestamps) = m /\ Len(b.pm25) = m /\ Len(b.aqi) = m
            /\ \A i \in 1..m :
                  LET r == dfh.rows[N - m + i]
                  IN  /\ b.timestamps[i] = TsStr(Get(r.ts))
                      /\ b.pm25[i] = Round3Cell(r.pm)
                      /\ b.aqi[i] = pm25_to_aqi(r.pm).aqi

C9_Witness ==
    /\ resp.kind = "last"
    /\ resp.n = 2
    /\ Len(dfh.rows) > 2
    /\ resp.body.timestamps[2] = TsStr(IndexMax(dfh.rows))

\* C10: a forecast is computed from the row of the most recent hour, the hour
\* that last_timestamp reports.
C10_LatestRow ==
    (resp.kind = "predict" /\ resp.outcome = "ok") =>
        /\ resp.row = Get(dfh.rows[Len(dfh.rows)].ts)
        /\ resp.body.last_timestamp = TsStr(resp.row)

\* the last hour of the table was logged without a measurement
C10_Witness ==
    /\ resp.kind = "predict"
    /\ resp.outcome = "ok"
    /\ Len(df.rows) = 3
    /\ IsNa(df.rows[3].pm)

====
